---- MODULE Spec2Model ----
(***************************************************************************)
(* Model of the gmsh-scripting layout code: geometry_def.py (primitives    *)
(* and refinement-field builders), mesh.py (mesh() and run()) and the      *)
(* scenario catalogue of run_mesh_config.py.                               *)
(*                                                                         *)
(* Numbers.  Lengths and coordinates are kept in fixed point with one      *)
(* binary fractional digit: the stored integer is twice the physical       *)
(* value (Fx).  Every "/2" of the source is applied to an even stored      *)
(* value, so Half is exact; no stored value is halved twice.  Angles are   *)
(* kept as a numerator over the circle's arc count (a fraction of a full   *)
(* turn); rotation angles are whole quarter turns about the z axis.        *)
(*                                                                         *)
(* The external engine (the gmsh module) is the record variable gmsh: its  *)
(* entities by dimension and tag, physical groups, fields, background      *)
(* field, and the log of the requests it received.                         *)
(***************************************************************************)
EXTENDS Integers, Sequences, FiniteSets, TLC

VARIABLES
    gmsh,            \* the engine's state (one global model) and request log
    pc,              \* position of the running code
    idx,             \* run(): number of catalogue entries taken so far
    cur,             \* run(): config_param of the current iteration
    out,             \* stdout: the messages printed by run()
    files,           \* paths written by gmsh.write
    ext_domain,      \* the Rectangle object (mesh()'s ext_domain, or the caller's)
    circles,         \* list of Circle objects (mesh()'s circles, or the caller's)
    fields,          \* mesh(): list of refinement field handles
    surface_domain,  \* mesh(): the PlaneSurface object
    err,             \* the exception that ended the last call, or "none"; after
                     \* an exception has left mesh(), the locals above keep the
                     \* values they had when it was raised
    pyPoints,        \* library use: Point objects constructed by the caller
    prev,            \* library use: the engine before the last library call
    lastCall,        \* library use: the last library call and its arguments
    nops             \* library use: number of library calls made

vars == <<gmsh, pc, idx, cur, out, files, ext_domain, circles, fields,
          surface_domain, err, pyPoints, prev, lastCall, nops>>

---------------------------------------------------------------------------
(* Bounds of the model *)

MaxScen == 2        \* catalogue entries per run
MaxCyl == 2         \* cylinder positions per generated scenario
MaxNPoints == 3     \* n_points_cyl
MaxOps == 2         \* library calls per library-use behaviour

---------------------------------------------------------------------------
(* Fixed-point numbers *)

Fx(v) == 2 * v

Half(v) == v \div 2

\* Python int(): truncation toward zero of num/den, den > 0
IntTrunc(num, den) == IF num >= 0 THEN num \div den ELSE -((-num) \div den)

\* np.pi as a decimal fraction; n * PiNum stays within 32 bits for n <= 683,
\* and floor(n * PiNum / PiDen) = floor(n * pi) for every n in that range
PiNum == 3141592

PiDen == 1000000

None == [kind |-> "None"]

---------------------------------------------------------------------------
(* The engine *)

NoArg == <<0, 0, 0>>

Req(op, dim, tag, arg) == [op |-> op, dim |-> dim, tag |-> tag, arg |-> arg]

Logged(g, op, dim, tag, arg) == [g EXCEPT !.log = Append(@, Req(op, dim, tag, arg))]

EmptyModel ==
    [points |-> <<>>, curves |-> <<>>, loops |-> <<>>, surfaces |-> <<>>,
     groups |-> <<>>, fields |-> <<>>, background |-> 0, meshed |-> FALSE]

\* the engine before gmsh.initialize()
EngineOff == [init |-> FALSE, model |-> EmptyModel, log |-> <<>>]

gmsh_initialize(g) == Logged([g EXCEPT !.init = TRUE, !.model = EmptyModel], "initialize", -1, 0, NoArg)

gmsh_option_setNumber(g) == Logged(g, "option.setNumber", -1, 0, NoArg)

gmsh_clear(g) == Logged([g EXCEPT !.model = EmptyModel], "clear", -1, 0, NoArg)

gmsh_finalize(g) == Logged([g EXCEPT !.init = FALSE, !.model = EmptyModel], "finalize", -1, 0, NoArg)

occ_synchronize(g) == Logged(g, "synchronize", -1, 0, NoArg)

\* occ.addPoint: the new point gets the next free tag of dimension 0
occ_addPoint(g, x, y, ms) ==
    Logged([g EXCEPT !.model.points = Append(@, [kind |-> "xy", x |-> x, y |-> y, ms |-> ms])],
           "addPoint", 0, Len(g.model.points) + 1, NoArg)

\* occ.addLine: the new curve gets the next free tag of dimension 1 and
\* carries the geometry of its two end points
occ_addLine(g, s, e) ==
    Logged([g EXCEPT !.model.curves =
                Append(@, [kind |-> "line", s |-> s, e |-> e,
                           x1 |-> g.model.points[s].x, y1 |-> g.model.points[s].y,
                           x2 |-> g.model.points[e].x, y2 |-> g.model.points[e].y])],
           "addLine", 1, Len(g.model.curves) + 1, NoArg)

\* the vertex of an arc at angle 2*pi*a/den on the circle (xc, yc, r)
ArcVertex(xc, yc, r, a, den) ==
    [kind |-> "arcend", xc |-> xc, yc |-> yc, r |-> r, a |-> a % den, den |-> den]

\* occ.addCircle with angle1, angle2: one arc, which brings its own two end vertices
occ_addCircle(g, xc, yc, r, a1, a2, den) ==
    LET np == Len(g.model.points)
        g1 == [g EXCEPT !.model.points = @ \o <<ArcVertex(xc, yc, r, a1, den),
                                                  ArcVertex(xc, yc, r, a2, den)>>,
                        !.model.curves =
                            Append(@, [kind |-> "arc", s |-> np + 1, e |-> np + 2,
                                       xc |-> xc, yc |-> yc, r |-> r,
                                       a1 |-> a1, a2 |-> a2, den |-> den])]
    IN  Logged(g1, "addCircle", 1, Len(g.model.curves) + 1, <<a1, a2, den>>)

\* the lowest tag whose point has the geometry of point t
CanonPoint(pts, t) == CHOOSE u \in 1..t : pts[u] = pts[t] /\ \A w \in 1..(u - 1) : pts[w] # pts[t]

\* tags of the points that repeat the geometry of a point with a lower tag
DuplicatePoints(g) ==
    {t \in 1..Len(g.model.points) :
        g.model.points[t].kind # "removed" /\ CanonPoint(g.model.points, t) # t}

\* occ.removeAllDuplicates: points at the same location are merged into the
\* one with the lowest tag, and the curves that ended on them end on it
occ_removeAllDuplicates(g) ==
    LET pts == g.model.points
        dups == DuplicatePoints(g)
        g1 == [g EXCEPT
                 !.model.points = [t \in 1..Len(pts) |->
                                     IF t \in dups THEN [kind |-> "removed"] ELSE pts[t]],
                 !.model.curves = [c \in 1..Len(g.model.curves) |->
                                     [g.model.curves[c] EXCEPT
                                         !.s = CanonPoint(pts, @),
                                         !.e = CanonPoint(pts, @)]]]
    IN  Logged(g1, "removeAllDuplicates", -1, 0, NoArg)

occ_addCurveLoop(g, tags) ==
    Logged([g EXCEPT !.model.loops = Append(@, tags)], "addCurveLoop", 1, Len(g.model.loops) + 1, NoArg)

occ_addPlaneSurface(g, loopTags) ==
    Logged([g EXCEPT !.model.surfaces = Append(@, loopTags)],
           "addPlaneSurface", 2, Len(g.model.surfaces) + 1, NoArg)

\* number of physical groups of dimension dim
GroupCount(g, dim) == Cardinality({k \in 1..Len(g.model.groups) : g.model.groups[k].dim = dim})

\* model.addPhysicalGroup(dim, tags) followed by model.setPhysicalName(dim, tag, name)
model_addNamedPhysicalGroup(g, dim, tags, name) ==
    LET tag == GroupCount(g, dim) + 1
        g1 == [g EXCEPT !.model.groups =
                   Append(@, [dim |-> dim, tag |-> tag, ents |-> tags, name |-> name])]
    IN  Logged(Logged(g1, "addPhysicalGroup", dim, tag, NoArg), "setPhysicalName", dim, tag, NoArg)

\* mesh.field.add(type): the new field gets the next free field tag
field_add(g, type) ==
    Logged([g EXCEPT !.model.fields = Append(@, [type |-> type, opts |-> <<>>])],
           "field.add", -1, Len(g.model.fields) + 1, NoArg)

\* mesh.field.setNumber / setNumbers(field, key, value)
field_set(g, f, key, value) ==
    Logged([g EXCEPT !.model.fields[f].opts = Append(@, [key |-> key, value |-> value])],
           "field.set", -1, f, NoArg)

field_setAsBackgroundMesh(g, f) ==
    Logged([g EXCEPT !.model.background = f], "setAsBackgroundMesh", -1, f, NoArg)

mesh_generate(g) == Logged([g EXCEPT !.model.meshed = TRUE], "generate", 2, 0, NoArg)

gmsh_write(g) == Logged(g, "write", -1, 0, NoArg)

\* occ.translate([(dim, tag)], vx, vy, 0)
occ_translate(g, dim, tag, v) ==
    LET g1 == IF dim = 0
              THEN [g EXCEPT !.model.points[tag].x = @ + v[1], !.model.points[tag].y = @ + v[2]]
              ELSE [g EXCEPT !.model.curves[tag].x1 = @ + v[1], !.model.curves[tag].y1 = @ + v[2],
                             !.model.curves[tag].x2 = @ + v[1], !.model.curves[tag].y2 = @ + v[2]]
    IN  Logged(g1, "translate", dim, tag, <<v[1], v[2], 0>>)

\* occ.rotate([(dim, tag)], ox, oy, 0, 0, 0, 1, q * pi/2): q quarter turns
\* about the z axis through (ox, oy)
Rot(x, y, ox, oy, q) ==
    CASE q % 4 = 0 -> <<x, y>>
      [] q % 4 = 1 -> <<ox - (y - oy), oy + (x - ox)>>
      [] q % 4 = 2 -> <<ox - (x - ox), oy - (y - oy)>>
      [] OTHER     -> <<ox + (y - oy), oy - (x - ox)>>

occ_rotate(g, dim, tag, o, q) ==
    LET g1 == IF dim = 0
              THEN LET p == g.model.points[tag]
                       r == Rot(p.x, p.y, o[1], o[2], q)
                   IN  [g EXCEPT !.model.points[tag].x = r[1], !.model.points[tag].y = r[2]]
              ELSE LET c == g.model.curves[tag]
                       r1 == Rot(c.x1, c.y1, o[1], o[2], q)
                       r2 == Rot(c.x2, c.y2, o[1], o[2], q)
                   IN  [g EXCEPT !.model.curves[tag].x1 = r1[1], !.model.curves[tag].y1 = r1[2],
                                 !.model.curves[tag].x2 = r2[1], !.model.curves[tag].y2 = r2[2]]
    IN  Logged(g1, "rotate", dim, tag, <<o[1], o[2], q>>)

---------------------------------------------------------------------------
(* geometry_def.py: the primitives.  A constructor yields the engine after *)
(* its requests (.g) and the Python object it built (.obj).                *)

LastTag(g) == g.log[Len(g.log)].tag

\* a Point that replaces a non-positive mesh size by a default
C7_Mutant_Point(g, x, y, mesh_size) ==
    LET ms == IF mesh_size[1] <= 0 THEN <<1, 1>> ELSE mesh_size
        g1 == occ_addPoint(g, x, y, ms)
    IN  [g |-> g1,
         obj |-> [x |-> x, y |-> y, z |-> 0, mesh_size |-> ms, dim |-> 0,
                  tag |-> g1.log[Len(g1.log)].tag]]

\* Point.__init__
Point(g, x, y, mesh_size) ==
    LET g1 == occ_addPoint(g, x, y, mesh_size)
    IN  [g |-> g1,
         obj |-> [x |-> x, y |-> y, z |-> 0, mesh_size |-> mesh_size, dim |-> 0,
                  tag |-> LastTag(g1)]]

\* Point.translation: one request for the point's entity; self.x, self.y stay
Point_translation(g, p, v) == occ_translate(g, p.dim, p.tag, v)

\* Point.rotation
Point_rotation(g, p, o, q) == occ_rotate(g, p.dim, p.tag, o, q)

\* Line.__init__: start_point and end_point refer to Point objects, kept
\* here by their position in the owner's list of points
Line(g, points, si, ei) ==
    LET g1 == occ_addLine(g, points[si].tag, points[ei].tag)
    IN  [g |-> g1,
         obj |-> [start_point |-> si, end_point |-> ei, dim |-> 1, tag |-> LastTag(g1)]]

\* Line.translation: one request for the line's own entity
Line_translation(g, line, v) == occ_translate(g, line.dim, line.tag, v)

\* Line.rotation
Line_rotation(g, line, o, q) == occ_rotate(g, line.dim, line.tag, o, q)

\* Rectangle.__init__, first half: the 4 corner Points
Rectangle_points(g, xc, yc, dx, dy, mesh_size) ==
    LET p0 == Point(g, xc - Half(dx), yc - Half(dy), mesh_size)
        p1 == Point(p0.g, xc + Half(dx), yc - Half(dy), mesh_size)
        p2 == Point(p1.g, xc + Half(dx), yc + Half(dy), mesh_size)
        p3 == Point(p2.g, xc - Half(dx), yc + Half(dy), mesh_size)
    IN  [g |-> p3.g, obj |-> <<p0.obj, p1.obj, p2.obj, p3.obj>>]

\* Rectangle.__init__, second half: the 4 Lines
Rectangle_lines(g, points) ==
    LET l0 == Line(g, points, 1, 2)
        l1 == Line(l0.g, points, 2, 3)
        l2 == Line(l1.g, points, 3, 4)
        l3 == Line(l2.g, points, 4, 1)
    IN  [g |-> l3.g, obj |-> <<l0.obj, l1.obj, l2.obj, l3.obj>>]

\* Rectangle.__init__
Rectangle(g, xc, yc, dx, dy, mesh_size) ==
    LET ps == Rectangle_points(g, xc, yc, dx, dy, mesh_size)
        ls == Rectangle_lines(ps.g, ps.obj)
    IN  [g |-> ls.g,
         obj |-> [kind |-> "Rectangle", xc |-> xc, yc |-> yc, z |-> 0, dx |-> dx, dy |-> dy,
                  mesh_size |-> mesh_size, dim |-> 1, points |-> ps.obj, lines |-> ls.obj]]

\* [line.tag for line in line_list]
RECURSIVE TagsOf(_)
TagsOf(objs) == IF objs = <<>> THEN <<>> ELSE <<objs[1].tag>> \o TagsOf(Tail(objs))

\* CurveLoop.__init__
CurveLoop(g, line_list) ==
    LET g1 == occ_addCurveLoop(g, TagsOf(line_list))
    IN  [g |-> g1, obj |-> [dim |-> 1, tag_list |-> TagsOf(line_list), tag |-> LastTag(g1)]]

\* Rectangle.close_loop: .obj is the returned loop tag
Rectangle_close_loop(g, rect) ==
    LET cl == CurveLoop(g, rect.lines) IN [g |-> cl.g, obj |-> cl.obj.tag]

\* a define_bc that names the left line "outlet" and the right line "inlet"
C12_Mutant_Rectangle_define_bc(g, rect) ==
    LET g1 == model_addNamedPhysicalGroup(g, rect.dim, <<rect.lines[2].tag>>, "inlet")
        g2 == model_addNamedPhysicalGroup(g1, rect.dim, <<rect.lines[4].tag>>, "outlet")
        g3 == model_addNamedPhysicalGroup(g2, rect.dim, <<rect.lines[3].tag>>, "wall_top")
    IN  model_addNamedPhysicalGroup(g3, rect.dim, <<rect.lines[1].tag>>, "wall_bottom")

\* Rectangle.define_bc
Rectangle_define_bc(g, rect) ==
    LET g1 == model_addNamedPhysicalGroup(g, rect.dim, <<rect.lines[4].tag>>, "inlet")
        g2 == model_addNamedPhysicalGroup(g1, rect.dim, <<rect.lines[2].tag>>, "outlet")
        g3 == model_addNamedPhysicalGroup(g2, rect.dim, <<rect.lines[3].tag>>, "wall_top")
    IN  model_addNamedPhysicalGroup(g3, rect.dim, <<rect.lines[1].tag>>, "wall_bottom")

\* a translation that stops after the first of the lines
C10_Mutant_Lines_translation(g, lines, k, v) ==
    IF k > Len(lines) THEN g ELSE Line_translation(g, lines[k], v)

\* [line.translation(vector) for line in self.lines], from line k on
RECURSIVE Lines_translation(_, _, _, _)
Lines_translation(g, lines, k, v) ==
    IF k > Len(lines) THEN g
    ELSE Lines_translation(Line_translation(g, lines[k], v), lines, k + 1, v)

\* Rectangle.translation
Rectangle_translation(g, rect, v) == Lines_translation(g, rect.lines, 1, v)

RECURSIVE Lines_rotation(_, _, _, _, _)
Lines_rotation(g, lines, k, o, q) ==
    IF k > Len(lines) THEN g
    ELSE Lines_rotation(Line_rotation(g, lines[k], o, q), lines, k + 1, o, q)

\* Rectangle.rotation
Rectangle_rotation(g, rect, o, q) == Lines_rotation(g, rect.lines, 1, o, q)

\* the arc count rounded up instead of truncated
C6_Mutant_Distribution(n_points) == IntTrunc(n_points * PiNum + PiDen - 1, PiDen)

\* Circle.__init__: self.distribution
Distribution(n_points) == IntTrunc(n_points * PiNum, PiDen)

\* Circle.__init__: the list comprehension over range(0, self.distribution);
\* .obj is the list of the arcs' tags
RECURSIVE Circle_arcs(_, _, _, _, _, _, _)
Circle_arcs(g, xc, yc, radius, i, distribution, tags) ==
    IF i >= distribution THEN [g |-> g, obj |-> tags]
    ELSE LET g1 == occ_addCircle(g, xc, yc, radius, i, 1 + i, distribution)
         IN  Circle_arcs(g1, xc, yc, radius, i + 1, distribution, Append(tags, LastTag(g1)))

\* Circle.__init__ (n_points # 0)
Circle(g, xc, yc, diameter, n_points) ==
    LET radius == Half(diameter)
        distribution == Distribution(n_points)
        arcs == Circle_arcs(g, xc, yc, radius, 0, distribution, <<>>)
        g1 == occ_removeAllDuplicates(occ_synchronize(arcs.g))
    IN  [g |-> g1,
         obj |-> [kind |-> "Circle", xc |-> xc, yc |-> yc, zc |-> 0, radius |-> radius,
                  mesh_size |-> <<diameter, n_points>>, dim |-> 1,
                  distribution |-> distribution, arcCircle_list |-> arcs.obj]]

\* Circle.close_loop: .obj is the returned loop tag
Circle_close_loop(g, circle) ==
    LET g1 == occ_addCurveLoop(g, circle.arcCircle_list) IN [g |-> g1, obj |-> LastTag(g1)]

\* Circle.define_bc
Circle_define_bc(g, circle, name) ==
    model_addNamedPhysicalGroup(g, circle.dim, circle.arcCircle_list, name)

\* geom_object.close_loop() of a Rectangle or a Circle
close_loop(g, geom_object) ==
    IF geom_object.kind = "Rectangle" THEN Rectangle_close_loop(g, geom_object)
    ELSE Circle_close_loop(g, geom_object)

\* PlaneSurface.__init__: the list comprehension calling close_loop()
RECURSIVE CloseLoops(_, _, _, _)
CloseLoops(g, geom_objects, k, tags) ==
    IF k > Len(geom_objects) THEN [g |-> g, obj |-> tags]
    ELSE LET cl == close_loop(g, geom_objects[k])
         IN  CloseLoops(cl.g, geom_objects, k + 1, Append(tags, cl.obj))

\* PlaneSurface.__init__
PlaneSurface(g, geom_objects) ==
    LET cls == CloseLoops(g, geom_objects, 1, <<>>)
        g1 == occ_addPlaneSurface(cls.g, cls.obj)
    IN  [g |-> g1,
         obj |-> [kind |-> "PlaneSurface", ngeom |-> Len(geom_objects),
                  tag_list |-> cls.obj, dim |-> 2, tag |-> LastTag(g1)]]

\* PlaneSurface.define_bc
PlaneSurface_define_bc(g, surf) ==
    model_addNamedPhysicalGroup(g, surf.dim, <<surf.tag>>, "fluid")

---------------------------------------------------------------------------
(* geometry_def.py: refinement-field builders *)

\* the Thickness of a Box field, 0.3, as a fraction
BoxThickness == <<3, 10>>

\* add_refinement_zone_rect: .obj is the returned field handle
add_refinement_zone_rect(g, xc, yc, length, height, mesh_size, mesh_size_out) ==
    LET g0 == field_add(g, "Box")
        field == LastTag(g0)
        g1 == field_set(g0, field, "VIn", mesh_size)
        g2 == field_set(g1, field, "VOut", mesh_size_out)
        g3 == field_set(g2, field, "XMin", xc - Half(length))
        g4 == field_set(g3, field, "XMax", xc + Half(length))
        g5 == field_set(g4, field, "YMin", yc - Half(height))
        g6 == field_set(g5, field, "YMax", yc + Half(height))
        g7 == field_set(g6, field, "Thickness", BoxThickness)
    IN  [g |-> occ_synchronize(g7), obj |-> field]

\* number of parameters of def add_refinement_zone_rect (none has a default)
add_refinement_zone_rect_params == 6

\* threshold: .obj is the returned field handle.  dist_max * 1.1 is kept as
\* the fraction <<11 * dist_max, 10>>
threshold(g, xc, yc, dist_min, dist_max, mesh_size_in, mesh_size_out) ==
    LET g0 == field_add(g, "Distance")
        distance == LastTag(g0)
        g1 == occ_addPoint(g0, xc, yc, mesh_size_in)
        center == LastTag(g1)
        g2 == field_set(g1, distance, "PointsList", <<center>>)
        g3 == field_add(g2, "Threshold")
        field == LastTag(g3)
        g4 == field_set(g3, field, "DistMin", dist_max)
        g5 == field_set(g4, field, "DistMax", dist_max)
        g6 == field_set(g5, field, "StopAtDistMax", <<11 * dist_max, 10>>)
        g7 == field_set(g6, field, "SizeMin", mesh_size_in)
        g8 == field_set(g7, field, "SizeMax", mesh_size_out)
        g9 == field_set(g8, field, "InField", distance)
    IN  [g |-> g9, obj |-> field]

\* apply_fields
apply_fields(g, fs) ==
    LET g0 == field_add(g, "Min")
        field == LastTag(g0)
        g1 == field_set(g0, field, "FieldsList", fs)
    IN  field_setAsBackgroundMesh(g1, field)

\* Config
Config(cyl_pos, path) == [cyl_pos |-> cyl_pos, path |-> path]

\* Params
Params(diameter, n_points_cyl, height, length_upstream, length_downstream, global_mesh_size, length_refinement, length_refinement_downstream, refined_mesh_size) ==
    [diameter |-> diameter, n_points_cyl |-> n_points_cyl, height |-> height,
     length_upstream |-> length_upstream, length_downstream |-> length_downstream,
     global_mesh_size |-> global_mesh_size, length_refinement |-> length_refinement,
     length_refinement_downstream |-> length_refinement_downstream,
     refined_mesh_size |-> refined_mesh_size]

---------------------------------------------------------------------------
(* run_mesh_config.py: the catalogue.  The unit of length is DIAMETER/2.   *)
(* Mesh sizes are only passed on to the engine; they are kept as fractions *)
(* <<numerator, denominator>> of fixed-point lengths.                      *)

DIAMETER == Fx(2)

HEIGHT == 52 * DIAMETER

LENGTH_UPSTREAM == 10 * DIAMETER

LENGTH_DOWNSTREAM == 46 * DIAMETER

GLOBAL_MESH_SIZE == <<DIAMETER * 2, 1>>

LENGTH_REFINEMENT == DIAMETER

LENGTH_REFINEMENT_DOWNSTREAM == 4 * DIAMETER

\* param_1_cyl
param_1_cyl(n) ==
    Params(DIAMETER, n, HEIGHT, LENGTH_UPSTREAM, LENGTH_DOWNSTREAM, GLOBAL_MESH_SIZE,
           LENGTH_REFINEMENT, LENGTH_REFINEMENT_DOWNSTREAM, <<DIAMETER * 5, n>>)

\* L = 2.5*DIAMETER
L == Half(5 * DIAMETER)

\* [(i*L, 0) for i in range(n)]
Line_positions(n) == [k \in 1..n |-> <<(k - 1) * L, 0>>]

LINE_1 == Config(<<<<0, 0>>>>, "meshes/cyl_line_1.msh")

LINE_6 == Config(Line_positions(6), "gmsh-scripting/meshes/cyl_line_6.msh")

---------------------------------------------------------------------------
(* Inputs of mesh() and run() *)

\* cylinder centres of the generated scenarios
CylPositions == {<<0, 0>>, <<L, 0>>, <<2 * DIAMETER, -2 * DIAMETER>>}

\* every list of at most n positions
RECURSIVE PosLists(_)
PosLists(n) ==
    IF n = 0 THEN {<<>>}
    ELSE LET shorter == PosLists(n - 1)
         IN  shorter \cup {Append(l, p) : l \in {s \in shorter : Len(s) = n - 1}, p \in CylPositions}

Paths == {LINE_1.path, LINE_6.path}

ConfigSet == {Config(l, p) : l \in PosLists(MaxCyl), p \in Paths} \cup {LINE_1, LINE_6}

\* parameter bundles: the catalogue's, and small domains that differ in every
\* length the layout reads
ParamSet ==
    {param_1_cyl(n) : n \in 1..MaxNPoints}
    \cup {Params(DIAMETER, n, Fx(4), Fx(u), Fx(d), GLOBAL_MESH_SIZE, Fx(1), Fx(r), <<DIAMETER * 5, n>>) :
            n \in {1, MaxNPoints}, u \in {1, 2}, d \in {2, 3}, r \in {1, 2}}

---------------------------------------------------------------------------
(* mesh.py: mesh() *)

\* mesh(), "External domain": total_length and xc
mesh_total_length(params) == params.length_upstream + params.length_downstream

\* mesh_xc without the upstream offset: the rectangle centred on its own middle
C3_Mutant_mesh_xc(params) == Half(mesh_total_length(params))

mesh_xc(params) == Half(mesh_total_length(params)) - params.length_upstream

\* mesh(): ext_domain = Rectangle(xc, 0, total_length, params.height, ...)
mesh_ext_domain(g, params) ==
    Rectangle(g, mesh_xc(params), 0, mesh_total_length(params), params.height,
              params.global_mesh_size)

\* mesh(): the arguments of the call of add_refinement_zone_rect for pos
mesh_refinement_args(params, pos) ==
    LET total_length == params.length_refinement + params.length_refinement_downstream
        xc == Half(total_length) - params.length_refinement + pos[1]
        yc == pos[2]
    IN  <<xc, yc, total_length, params.length_refinement * 2, params.refined_mesh_size,
          params.global_mesh_size, 40 * params.diameter>>

\* a Python call of a function without defaults binds only when the number
\* of positional arguments is its number of parameters; otherwise TypeError
CallBinds(nargs, nparams) == nargs = nparams

\* mesh(): circle.define_bc('cyl'+str(i)) for i, circle in enumerate(circles), from k on
RECURSIVE Circles_define_bc(_, _, _)
Circles_define_bc(g, cs, k) ==
    IF k > Len(cs) THEN g
    ELSE Circles_define_bc(Circle_define_bc(g, cs[k], "cyl" \o ToString(k - 1)), cs, k + 1)

\* the position list, the output path and the parameters of the running mesh()
CylindersPos == cur.config.cyl_pos

OutPath == cur.config.path

CurParams == cur.params

\* no library call has been made
NoCall == [op |-> "none", args |-> <<>>, raised |-> FALSE]

LibIdle == pyPoints = <<>> /\ prev = EngineOff /\ lastCall = NoCall /\ nops = 0

LibUnchanged == UNCHANGED <<pyPoints, prev, lastCall, nops>>

\* run(): the for loop takes the next entry of the catalogue and prints the
\* start message.  The catalogue is an input: its entries are drawn when
\* the loop reaches them.
RunStart ==
    /\ pc = "run"
    /\ idx < MaxScen
    /\ \E c \in ConfigSet, p \in ParamSet :
          /\ cur' = [config |-> c, params |-> p]
          /\ out' = Append(out, [msg |-> "start", path |-> c.path, i |-> idx + 1])
    /\ idx' = idx + 1
    /\ pc' = "mesh"
    /\ UNCHANGED <<gmsh, files, ext_domain, circles, fields, surface_domain, err>>
    /\ LibUnchanged

\* run(): the catalogue is exhausted and run() returns
RunReturn ==
    /\ pc = "run"
    /\ pc' = "returned"
    /\ UNCHANGED <<gmsh, idx, cur, out, files, ext_domain, circles, fields, surface_domain, err>>
    /\ LibUnchanged

\* mesh(): gmsh.initialize(), option.setNumber, gmsh.clear()
MeshInit ==
    /\ pc = "mesh"
    /\ gmsh' = gmsh_clear(gmsh_option_setNumber(gmsh_initialize(gmsh)))
    /\ pc' = "ext_domain"
    /\ UNCHANGED <<idx, cur, out, files, ext_domain, circles, fields, surface_domain, err>>
    /\ LibUnchanged

\* mesh(): the external domain
MeshExtDomain ==
    /\ pc = "ext_domain"
    /\ LET r == mesh_ext_domain(gmsh, CurParams)
       IN  gmsh' = r.g /\ ext_domain' = r.obj
    /\ pc' = "cyl_loop"
    /\ UNCHANGED <<idx, cur, out, files, circles, fields, surface_domain, err>>
    /\ LibUnchanged

\* mesh(): circles.append(Circle(pos[0], pos[1], params.diameter, params.n_points_cyl))
MeshAddCircle ==
    /\ pc = "cyl_loop"
    /\ Len(circles) < Len(CylindersPos)
    /\ LET pos == CylindersPos[Len(circles) + 1]
           c == Circle(gmsh, pos[1], pos[2], CurParams.diameter, CurParams.n_points_cyl)
       IN  gmsh' = c.g /\ circles' = Append(circles, c.obj)
    /\ pc' = "refine"
    /\ UNCHANGED <<idx, cur, out, files, ext_domain, fields, surface_domain, err>>
    /\ LibUnchanged

\* a refinement step whose exception is caught by run(), which goes on with
\* the next scenario
C8_Mutant_MeshAddRefinement ==
    /\ pc = "refine"
    /\ err' = "TypeError"
    /\ pc' = "run"
    /\ UNCHANGED <<gmsh, fields, idx, cur, out, files, ext_domain, circles, surface_domain>>
    /\ LibUnchanged

\* mesh(): fields.append(add_refinement_zone_rect(...)); the call raises
\* TypeError when its arguments do not bind, and the exception leaves
\* mesh() and run()
MeshAddRefinement ==
    /\ pc = "refine"
    /\ LET a == mesh_refinement_args(CurParams, CylindersPos[Len(circles)])
       IN  IF CallBinds(Len(a), add_refinement_zone_rect_params)
           THEN LET f == add_refinement_zone_rect(gmsh, a[1], a[2], a[3], a[4], a[5], a[6])
                IN  /\ gmsh' = f.g
                    /\ fields' = Append(fields, f.obj)
                    /\ pc' = "cyl_loop"
                    /\ err' = err
           ELSE /\ err' = "TypeError"
                /\ pc' = "raised"
                /\ UNCHANGED <<gmsh, fields>>
    /\ UNCHANGED <<idx, cur, out, files, ext_domain, circles, surface_domain>>
    /\ LibUnchanged

\* mesh(): gmsh.model.occ.synchronize() after the loop
MeshSynchronize ==
    /\ pc = "cyl_loop"
    /\ Len(circles) = Len(CylindersPos)
    /\ gmsh' = occ_synchronize(gmsh)
    /\ pc' = "surface"
    /\ UNCHANGED <<idx, cur, out, files, ext_domain, circles, fields, surface_domain, err>>
    /\ LibUnchanged

\* mesh(): "Surface generation"
MeshSurface ==
    /\ pc = "surface"
    /\ LET closed_loops == <<ext_domain>> \o circles
           ps == PlaneSurface(gmsh, closed_loops)
       IN  gmsh' = occ_synchronize(ps.g) /\ surface_domain' = ps.obj
    /\ pc' = "bc"
    /\ UNCHANGED <<idx, cur, out, files, ext_domain, circles, fields, err>>
    /\ LibUnchanged

\* mesh(): "BC definition"
MeshDefineBc ==
    /\ pc = "bc"
    /\ LET g1 == Rectangle_define_bc(gmsh, ext_domain)
           g2 == Circles_define_bc(g1, circles, 1)
           g3 == PlaneSurface_define_bc(g2, surface_domain)
       IN  gmsh' = occ_synchronize(g3)
    /\ pc' = "apply_fields"
    /\ UNCHANGED <<idx, cur, out, files, ext_domain, circles, fields, surface_domain, err>>
    /\ LibUnchanged

\* mesh(): apply_fields(fields)
MeshApplyFields ==
    /\ pc = "apply_fields"
    /\ gmsh' = apply_fields(gmsh, fields)
    /\ pc' = "generate"
    /\ UNCHANGED <<idx, cur, out, files, ext_domain, circles, fields, surface_domain, err>>
    /\ LibUnchanged

\* mesh(): gmsh.model.mesh.generate(2)
MeshGenerate ==
    /\ pc = "generate"
    /\ gmsh' = mesh_generate(gmsh)
    /\ pc' = "write"
    /\ UNCHANGED <<idx, cur, out, files, ext_domain, circles, fields, surface_domain, err>>
    /\ LibUnchanged

\* mesh(): gmsh.write(out_path)
MeshWrite ==
    /\ pc = "write"
    /\ gmsh' = gmsh_write(gmsh)
    /\ files' = files \cup {OutPath}
    /\ pc' = "finalize"
    /\ UNCHANGED <<idx, cur, out, ext_domain, circles, fields, surface_domain, err>>
    /\ LibUnchanged

\* mesh(): gmsh.finalize(), and mesh() returns: its locals are gone
MeshFinalize ==
    /\ pc = "finalize"
    /\ gmsh' = gmsh_finalize(gmsh)
    /\ ext_domain' = None
    /\ circles' = <<>>
    /\ fields' = <<>>
    /\ surface_domain' = None
    /\ pc' = "done_msg"
    /\ UNCHANGED <<idx, cur, out, files, err>>
    /\ LibUnchanged

\* run(): the done message
RunDone ==
    /\ pc = "done_msg"
    /\ out' = Append(out, [msg |-> "done", path |-> cur.config.path, i |-> idx])
    /\ pc' = "run"
    /\ UNCHANGED <<gmsh, idx, cur, files, ext_domain, circles, fields, surface_domain, err>>
    /\ LibUnchanged

Init ==
    /\ gmsh = EngineOff
    /\ pc = "run"
    /\ idx = 0
    /\ cur = None
    /\ out = <<>>
    /\ files = {}
    /\ ext_domain = None
    /\ circles = <<>>
    /\ fields = <<>>
    /\ surface_domain = None
    /\ err = "none"
    /\ LibIdle

Next ==
    \/ RunStart
    \/ RunReturn
    \/ MeshInit
    \/ MeshExtDomain
    \/ MeshAddCircle
    \/ MeshAddRefinement
    \/ MeshSynchronize
    \/ MeshSurface
    \/ MeshDefineBc
    \/ MeshApplyFields
    \/ MeshGenerate
    \/ MeshWrite
    \/ MeshFinalize
    \/ RunDone

Spec == Init /\ [][Next]_vars

---------------------------------------------------------------------------
(* Direct use of geometry_def.py: a caller that has initialized the engine *)
(* constructs primitives and transforms a Rectangle.  The constructors     *)
(* contain no check of their arguments; whether the engine accepts a       *)
(* degenerate request (a line between coincident points, a circle of       *)
(* radius <= 0) is the engine's matter, so both outcomes are modelled.     *)

LibCentres == {<<0, 0>>, <<Fx(1), Fx(-1)>>}

LibMeshSizes == {<<-1, 1>>, <<0, 1>>, <<1, 1>>}

\* (dx, dy) of the caller's rectangles: proper, zero and negative sides
LibSides == {<<Fx(2), Fx(1)>>, <<0, Fx(2)>>, <<Fx(2), 0>>, <<Fx(-1), Fx(2)>>, <<Fx(2), Fx(-1)>>}

LibDiameters == {Fx(-1), 0, Fx(1)}

LibNPoints == (-1)..MaxNPoints

LibVectors == {<<Fx(1), 0>>, <<0, Fx(-1)>>, <<Fx(-2), Fx(1)>>}

LibQuarterTurns == 1..3

\* the record kept of a library call: what was called, with what, and
\* whether it raised
Call(op, args, raised) == [op |-> op, args |-> args, raised |-> raised]

RunUnchanged == UNCHANGED <<pc, idx, cur, out, files, fields, surface_domain>>

\* p = Point(x, y, mesh_size)
LibPoint ==
    /\ pc = "lib" /\ nops < MaxOps
    /\ \E c \in LibCentres, ms \in LibMeshSizes :
          LET p == Point(gmsh, c[1], c[2], ms)
          IN  /\ gmsh' = p.g
              /\ pyPoints' = Append(pyPoints, p.obj)
              /\ lastCall' = Call("Point", <<c[1], c[2], ms>>, FALSE)
    /\ prev' = gmsh
    /\ err' = "none"
    /\ nops' = nops + 1
    /\ UNCHANGED <<ext_domain, circles>>
    /\ RunUnchanged

\* whether the points at positions si and ei of the list coincide
Coincide(points, si, ei) == points[si].x = points[ei].x /\ points[si].y = points[ei].y

\* the first Line of Rectangle.__init__ that joins coincident points, or 5
FirstDegenerateLine(points) ==
    IF Coincide(points, 1, 2) THEN 1
    ELSE IF Coincide(points, 2, 3) THEN 2
    ELSE IF Coincide(points, 3, 4) THEN 3
    ELSE IF Coincide(points, 4, 1) THEN 4
    ELSE 5

\* Rectangle.__init__, second half, when the engine raises on Line number k:
\* the Lines before it are registered
RECURSIVE Rectangle_lines_before(_, _, _, _)
Rectangle_lines_before(g, points, j, k) ==
    IF j >= k THEN g
    ELSE Rectangle_lines_before(Line(g, points, j, (j % 4) + 1).g, points, j + 1, k)

\* r = Rectangle(xc, yc, dx, dy, mesh_size)
LibRectangle ==
    /\ pc = "lib" /\ nops < MaxOps
    /\ \E c \in LibCentres, d \in LibSides, engineRaises \in BOOLEAN :
          LET dx == d[1]
              dy == d[2]
              ms == <<1, 1>>
              ps == Rectangle_points(gmsh, c[1], c[2], dx, dy, ms)
              k == FirstDegenerateLine(ps.obj)
          IN  /\ engineRaises => k <= 4
              /\ lastCall' = Call("Rectangle", <<c[1], c[2], dx, dy, ms>>, engineRaises)
              /\ IF engineRaises
                 THEN /\ gmsh' = Rectangle_lines_before(ps.g, ps.obj, 1, k)
                      /\ err' = "EngineError"
                      /\ UNCHANGED ext_domain
                 ELSE /\ gmsh' = Rectangle(gmsh, c[1], c[2], dx, dy, ms).g
                      /\ ext_domain' = Rectangle(gmsh, c[1], c[2], dx, dy, ms).obj
                      /\ err' = "none"
    /\ prev' = gmsh
    /\ nops' = nops + 1
    /\ UNCHANGED <<circles, pyPoints>>
    /\ RunUnchanged

\* c = Circle(xc, yc, diameter, n_points)
LibCircle ==
    /\ pc = "lib" /\ nops < MaxOps
    /\ \E c \in LibCentres, d \in LibDiameters, n \in LibNPoints, engineRaises \in BOOLEAN :
          /\ engineRaises => (n # 0 /\ Half(d) <= 0 /\ Distribution(n) > 0)
          /\ lastCall' = Call("Circle", <<c[1], c[2], d, n>>, n = 0 \/ engineRaises)
          /\ IF n = 0
             THEN \* self.mesh_size = diameter/n_points
                  err' = "ZeroDivisionError" /\ UNCHANGED <<gmsh, circles>>
             ELSE IF engineRaises
             THEN \* the first addCircle is refused
                  err' = "EngineError" /\ UNCHANGED <<gmsh, circles>>
             ELSE LET r == Circle(gmsh, c[1], c[2], d, n)
                  IN  gmsh' = r.g /\ circles' = Append(circles, r.obj) /\ err' = "none"
    /\ prev' = gmsh
    /\ nops' = nops + 1
    /\ UNCHANGED <<ext_domain, pyPoints>>
    /\ RunUnchanged

\* r.translation(vector)
LibRectTranslation ==
    /\ pc = "lib" /\ nops < MaxOps
    /\ ext_domain.kind = "Rectangle"
    /\ \E v \in LibVectors :
          /\ gmsh' = Rectangle_translation(gmsh, ext_domain, v)
          /\ lastCall' = Call("Rectangle.translation", v, FALSE)
    /\ prev' = gmsh
    /\ err' = "none"
    /\ nops' = nops + 1
    /\ UNCHANGED <<ext_domain, circles, pyPoints>>
    /\ RunUnchanged

\* r.rotation(angle, origin, axis), axis = (0, 0, 1), angle = q * pi/2
LibRectRotation ==
    /\ pc = "lib" /\ nops < MaxOps
    /\ ext_domain.kind = "Rectangle"
    /\ \E o \in LibCentres, q \in LibQuarterTurns :
          /\ gmsh' = Rectangle_rotation(gmsh, ext_domain, o, q)
          /\ lastCall' = Call("Rectangle.rotation", <<o[1], o[2], q>>, FALSE)
    /\ prev' = gmsh
    /\ err' = "none"
    /\ nops' = nops + 1
    /\ UNCHANGED <<ext_domain, circles, pyPoints>>
    /\ RunUnchanged

\* (dist_min, dist_max) of the caller's threshold fields: proper, equal and
\* reversed bounds
LibDistances == {<<0, Fx(1)>>, <<Fx(1), Fx(2)>>, <<Fx(1), Fx(1)>>, <<Fx(2), Fx(1)>>}

\* (mesh_size_in, mesh_size_out) of the caller's threshold fields
LibThresholdSizes == {<<<<1, 10>>, <<1, 1>>>>}

\* fields.append(threshold(xc, yc, dist_min, dist_max, mesh_size_in, mesh_size_out))
LibThreshold ==
    /\ pc = "lib" /\ nops < MaxOps
    /\ \E c \in LibCentres, d \in LibDistances, ms \in LibThresholdSizes :
          LET t == threshold(gmsh, c[1], c[2], d[1], d[2], ms[1], ms[2])
          IN  /\ gmsh' = t.g
              /\ fields' = Append(fields, t.obj)
              /\ lastCall' = Call("threshold", <<c[1], c[2], d[1], d[2], ms[1], ms[2]>>, FALSE)
    /\ prev' = gmsh
    /\ err' = "none"
    /\ nops' = nops + 1
    /\ UNCHANGED <<pc, idx, cur, out, files, surface_domain>>
    /\ UNCHANGED <<ext_domain, circles, pyPoints>>

\* r.define_bc()
LibRectDefineBc ==
    /\ pc = "lib" /\ nops < MaxOps
    /\ ext_domain.kind = "Rectangle"
    /\ gmsh' = Rectangle_define_bc(gmsh, ext_domain)
    /\ lastCall' = Call("Rectangle.define_bc", <<>>, FALSE)
    /\ prev' = gmsh
    /\ err' = "none"
    /\ nops' = nops + 1
    /\ UNCHANGED <<ext_domain, circles, pyPoints>>
    /\ RunUnchanged

LibInit ==
    /\ gmsh = gmsh_initialize(EngineOff)
    /\ pc = "lib"
    /\ idx = 0
    /\ cur = None
    /\ out = <<>>
    /\ files = {}
    /\ ext_domain = None
    /\ circles = <<>>
    /\ fields = <<>>
    /\ surface_domain = None
    /\ err = "none"
    /\ LibIdle

LibNext ==
    \/ LibPoint
    \/ LibRectangle
    \/ LibCircle
    \/ LibRectTranslation
    \/ LibRectRotation
    \/ LibThreshold
    \/ LibRectDefineBc

SpecLib == LibInit /\ [][LibNext]_vars

---------------------------------------------------------------------------
(* Observations used by the properties *)

\* a mesh() invocation is under way or has stopped, and the engine still
\* holds its model
MeshStopped == pc \in {"finalize", "raised"}

\* names of the physical groups of the model, in registration order
GroupNames == [k \in 1..Len(gmsh.model.groups) |-> gmsh.model.groups[k].name]

\* the groups registered under name
GroupsNamed(name) == {k \in 1..Len(gmsh.model.groups) : gmsh.model.groups[k].name = name}

CylName(i) == "cyl" \o ToString(i)

ExpectedNames(n) ==
    {"inlet", "outlet", "wall_top", "wall_bottom", "fluid"} \cup {CylName(i) : i \in 0..(n - 1)}

\* the value last set for option key of field f
FieldOpt(f, key) ==
    LET o == gmsh.model.fields[f].opts
        ks == {k \in 1..Len(o) : o[k].key = key}
    IN  o[CHOOSE k \in ks : \A j \in ks : j <= k].value

FieldHas(f, key) == \E k \in 1..Len(gmsh.model.fields[f].opts) : gmsh.model.fields[f].opts[k].key = key

\* the requests of the current (last begun) mesh() invocation
LastInitialize ==
    LET is == {k \in 1..Len(gmsh.log) : gmsh.log[k].op = "initialize"}
    IN  IF is = {} THEN 1 ELSE CHOOSE k \in is : \A j \in is : j <= k

InvLog == SubSeq(gmsh.log, LastInitialize, Len(gmsh.log))

OpsAt(ops) == {k \in 1..Len(InvLog) : InvLog[k].op \in ops}

GeometryOps == {"addPoint", "addLine", "addCircle", "addCurveLoop", "addPlaneSurface"}

RegisteringOps == GeometryOps \cup {"field.add", "addPhysicalGroup"}

\* every request in ops1 comes before every request in ops2
Before(ops1, ops2) == \A a \in OpsAt(ops1), b \in OpsAt(ops2) : a < b

---------------------------------------------------------------------------
(* Properties of mesh() and run(), checked under Spec *)

\* C1: when a mesh() invocation for N >= 1 cylinder positions has stopped
\* issuing requests (it is about to finalize, or an exception has left it),
\* the model holds exactly N + 5 named physical groups: inlet, outlet,
\* wall_top, wall_bottom, fluid and cyl0 .. cyl<N-1>, each name once.
C1_GroupNamesOfInvocation ==
    (MeshStopped /\ Len(CylindersPos) >= 1) =>
        /\ Len(gmsh.model.groups) = Len(CylindersPos) + 5
        /\ {GroupNames[k] : k \in 1..Len(GroupNames)} = ExpectedNames(Len(CylindersPos))
        /\ \A name \in ExpectedNames(Len(CylindersPos)) : Cardinality(GroupsNamed(name)) = 1

\* C2: when a mesh() invocation for N positions has stopped, it has created
\* N circles, the i-th centred at the i-th position with radius diameter/2,
\* and the group named cyl<i> holds exactly the arcs of the i-th circle.
C2_CirclesAndCylGroups ==
    MeshStopped =>
        /\ Len(circles) = Len(CylindersPos)
        /\ \A i \in 1..Len(CylindersPos) :
              /\ i <= Len(circles)
              /\ circles[i].xc = CylindersPos[i][1]
              /\ circles[i].yc = CylindersPos[i][2]
              /\ circles[i].radius = Half(CurParams.diameter)
              /\ \E k \in GroupsNamed(CylName(i - 1)) :
                    /\ gmsh.model.groups[k].dim = 1
                    /\ gmsh.model.groups[k].ents = circles[i].arcCircle_list

\* the engine holds the rectangle that mesh() built
EngineHoldsExtDomain ==
    gmsh.init /\ ext_domain.kind = "Rectangle" /\ Len(gmsh.model.curves) >= 4

\* C3: the bounding rectangle built by mesh() has length
\* length_upstream + length_downstream and height `height`, is centred at
\* y = 0, and its inlet (left) edge lies at x = -length_upstream and its
\* outlet (right) edge at x = +length_downstream.
C3_BoundingRectangle ==
    (ext_domain.kind = "Rectangle") =>
        LET r == ext_domain
            up == CurParams.length_upstream
            down == CurParams.length_downstream
            h == CurParams.height
        IN  /\ r.dx = up + down /\ r.dy = h /\ r.yc = 0
            /\ r.points[1].x = -up /\ r.points[4].x = -up
            /\ r.points[2].x = down /\ r.points[3].x = down
            /\ r.points[1].y = -Half(h) /\ r.points[2].y = -Half(h)
            /\ r.points[3].y = Half(h) /\ r.points[4].y = Half(h)
            /\ r.points[2].x - r.points[1].x = up + down
            /\ r.points[3].y - r.points[2].y = h
            /\ EngineHoldsExtDomain =>
                  LET inlet == gmsh.model.curves[r.lines[4].tag]
                      outlet == gmsh.model.curves[r.lines[2].tag]
                  IN  /\ inlet.x1 = -up /\ inlet.x2 = -up
                      /\ outlet.x1 = down /\ outlet.x2 = down
                      /\ \A k \in 1..4 :
                            /\ gmsh.model.points[r.points[k].tag].x = r.points[k].x
                            /\ gmsh.model.points[r.points[k].tag].y = r.points[k].y

\* C3 witness: a rectangle has been built for unequal upstream and
\* downstream lengths, so the origin is off its centre
C3_Witness ==
    /\ EngineHoldsExtDomain
    /\ pc = "cyl_loop"
    /\ CurParams.length_upstream # CurParams.length_downstream
    /\ ext_domain.xc # 0

\* the Box field f spans the refinement zone of position pos
IsRefinementBox(f, pos) ==
    LET lr == CurParams.length_refinement
        lrd == CurParams.length_refinement_downstream
    IN  /\ gmsh.model.fields[f].type = "Box"
        /\ \A key \in {"VIn", "VOut", "XMin", "XMax", "YMin", "YMax"} : FieldHas(f, key)
        /\ FieldOpt(f, "XMin") = pos[1] - lr
        /\ FieldOpt(f, "XMax") = pos[1] + lrd
        /\ FieldOpt(f, "YMin") = pos[2] - lr
        /\ FieldOpt(f, "YMax") = pos[2] + lr
        /\ FieldOpt(f, "XMax") - FieldOpt(f, "XMin") = lr + lrd
        /\ FieldOpt(f, "YMax") - FieldOpt(f, "YMin") = 2 * lr
        /\ FieldOpt(f, "VIn") = CurParams.refined_mesh_size
        /\ FieldOpt(f, "VOut") = CurParams.global_mesh_size

\* C4: once mesh() is past the refinement call for the k-th position, the
\* call has succeeded: the field list holds a k-th handle, and it names a
\* Box field spanning x from px - length_refinement to
\* px + length_refinement_downstream and y from py - length_refinement to
\* py + length_refinement, with VIn = refined_mesh_size and
\* VOut = global_mesh_size.
C4_RefinementRegistered ==
    \A k \in 1..Len(circles) :
        (gmsh.init /\ ~(pc = "refine" /\ k = Len(circles))) =>
            /\ err = "none"
            /\ Len(fields) >= k
            /\ fields[k] \in 1..Len(gmsh.model.fields)
            /\ IsRefinementBox(fields[k], CylindersPos[k])

\* C5: when a mesh() invocation has stopped, exactly one field has been set
\* as the background field, it is a Min field, and its FieldsList is the
\* list of the refinement fields, one Box field per cylinder in position
\* order.
C5_BackgroundIsMinOfRefinements ==
    MeshStopped =>
        /\ Cardinality(OpsAt({"setAsBackgroundMesh"})) = 1
        /\ gmsh.model.background \in 1..Len(gmsh.model.fields)
        /\ gmsh.model.fields[gmsh.model.background].type = "Min"
        /\ FieldOpt(gmsh.model.background, "FieldsList") = fields
        /\ Len(fields) = Len(CylindersPos)
        /\ \A k \in 1..Len(fields) : IsRefinementBox(fields[k], CylindersPos[k])

\* the number of requests op in the whole request log
CountOp(op) == Cardinality({k \in 1..Len(gmsh.log) : gmsh.log[k].op = op})

\* the number of messages msg printed
CountMsg(msg) == Cardinality({k \in 1..Len(out) : out[k].msg = msg})

\* the messages so far are start 1, done 1, start 2, done 2, ... and each
\* done message carries the path of the start message before it
MessagesAlternate ==
    \A j \in 1..Len(out) :
        /\ out[j].i = (j + 1) \div 2
        /\ out[j].msg = (IF j % 2 = 1 THEN "start" ELSE "done")
        /\ (j % 2 = 0) => out[j].path = out[j - 1].path

\* a scenario's done message is printed only after its mesh() has generated,
\* written and finalized, and the next scenario is started only after that
\* done message
DoneOnlyAfterCompletion ==
    /\ CountMsg("start") = idx
    /\ CountMsg("done") = (IF pc \in {"run", "returned"} THEN idx ELSE idx - 1)
    /\ CountOp("finalize") = (IF pc \in {"run", "returned", "done_msg"} THEN idx ELSE idx - 1)
    /\ CountOp("finalize") <= CountOp("write")
    /\ CountOp("write") <= CountOp("generate")
    /\ CountMsg("done") <= CountOp("finalize")
    /\ (pc = "mesh") => out[Len(out)] = [msg |-> "start", path |-> OutPath, i |-> idx]
    /\ (pc = "done_msg") => OutPath \in files

\* when mesh() has raised for scenario k, no done message of k is printed
RaisedLeavesNoDone ==
    (pc = "raised") =>
        /\ Len(out) = 2 * idx - 1
        /\ out[Len(out)] = [msg |-> "start", path |-> OutPath, i |-> idx]

\* C8: run() takes the scenarios in list order, one at a time: start
\* message with the output path, mesh() to completion, done message with
\* the same path, and only then the next scenario; when mesh() raises for
\* scenario k, no done message is printed for k and no later scenario is
\* started (nothing is printed or requested any more).
C8_RunIsSequential ==
    /\ [](MessagesAlternate /\ DoneOnlyAfterCompletion /\ RaisedLeavesNoDone)
    /\ [][pc = "raised" => (pc' = "raised" /\ out' = out /\ idx' = idx /\ gmsh' = gmsh)]_vars
    /\ [][idx' \in {idx, idx + 1}]_vars

\* C8 witness: the first scenario ran to its done message and mesh() has
\* raised for the second one
C8_Witness ==
    /\ pc = "raised"
    /\ idx = 2
    /\ Len(out) = 3
    /\ out[2].msg = "done"
    /\ CountOp("finalize") = 1

\* C9: when a mesh() invocation has ended, its requests were, in this
\* order: initialize and clear before anything is registered; geometry and
\* plane surface, then a synchronize, before any physical group; the
\* background field after all physical groups and before generate; write
\* after generate; finalize as the last request.
C9_CallOrderOfInvocation ==
    (pc \in {"done_msg", "raised"}) =>
        /\ Len(InvLog) >= 3
        /\ InvLog[1].op = "initialize"
        /\ InvLog[3].op = "clear"
        /\ Before({"clear"}, RegisteringOps)
        /\ Before(GeometryOps, {"addPhysicalGroup"})
        /\ \A b \in OpsAt({"addPhysicalGroup"}) :
              \E k \in OpsAt({"synchronize"}) :
                  k < b /\ \A a \in OpsAt(GeometryOps) : a < k
        /\ Cardinality(OpsAt({"setAsBackgroundMesh"})) = 1
        /\ Before({"addPhysicalGroup"}, {"setAsBackgroundMesh"})
        /\ Cardinality(OpsAt({"generate"})) = 1
        /\ Before({"setAsBackgroundMesh"}, {"generate"})
        /\ Cardinality(OpsAt({"write"})) = 1
        /\ Before({"generate"}, {"write"})
        /\ InvLog[Len(InvLog)].op = "finalize"

---------------------------------------------------------------------------
(* Properties of the primitives, checked under SpecLib *)

\* the arcs of circle c, as the engine holds them
ArcOf(c, i) == gmsh.model.curves[c.arcCircle_list[i]]

\* C6: for n_points >= 1 and diameter > 0, Circle creates exactly
\* floor(n_points * pi) arcs, at least one, and arc i (0-based) spans the
\* angles i * step to (i + 1) * step with step = 2*pi / count: the arcs
\* start at angle 0, each begins where the one before ends, and the last
\* ends at the full turn.
C6_CircleDiscretization ==
    \A j \in 1..Len(circles) :
        LET c == circles[j]
            d == c.mesh_size[1]
            n == c.mesh_size[2]
            count == Len(c.arcCircle_list)
        IN  (n >= 1 /\ d > 0) =>
                /\ count * PiDen <= n * PiNum
                /\ n * PiNum < (count + 1) * PiDen
                /\ count >= 1
                /\ c.distribution = count
                /\ \A i \in 1..count :
                      /\ ArcOf(c, i).kind = "arc"
                      /\ ArcOf(c, i).den = count
                      /\ ArcOf(c, i).a1 = i - 1
                      /\ ArcOf(c, i).a2 = i
                      /\ ArcOf(c, i).xc = c.xc /\ ArcOf(c, i).yc = c.yc
                      /\ ArcOf(c, i).r = Half(d)
                /\ ArcOf(c, 1).a1 = 0
                /\ ArcOf(c, count).a2 = ArcOf(c, count).den
                /\ \A i \in 1..(count - 1) : ArcOf(c, i).a2 = ArcOf(c, i + 1).a1
                /\ \A i \in 1..count, k \in 1..count : i # k => c.arcCircle_list[i] # c.arcCircle_list[k]

\* C6 witness: a circle of positive diameter built with n_points = 2 has its 6 arcs
C6_Witness ==
    \E j \in 1..Len(circles) :
        /\ circles[j].mesh_size[1] > 0
        /\ circles[j].mesh_size[2] = 2
        /\ Len(circles[j].arcCircle_list) = 6
        /\ lastCall.op = "Circle"

NonPositive(ms) == ms[1] <= 0

\* the last library call was a constructor given an argument the claim calls invalid
InvalidPoint == lastCall.op = "Point" /\ NonPositive(lastCall.args[3])

InvalidRectangle == lastCall.op = "Rectangle" /\ (lastCall.args[3] <= 0 \/ lastCall.args[4] <= 0)

InvalidCircle == lastCall.op = "Circle" /\ lastCall.args[3] <= 0

\* C7 as stated: constructing a Point with non-positive mesh size, a
\* Rectangle with a zero or negative side, or a Circle with zero or negative
\* diameter fails with an error, and the engine's model holds no entity
\* created by that constructor call.
C7_InvalidArgumentsRejected ==
    (InvalidPoint \/ InvalidRectangle \/ InvalidCircle) =>
        /\ lastCall.raised
        /\ err # "none"
        /\ gmsh.model = prev.model

\* the points the engine holds beyond those it held before the last call
NewPoints == SubSeq(gmsh.model.points, Len(prev.model.points) + 1, Len(gmsh.model.points))

NewCurves == SubSeq(gmsh.model.curves, Len(prev.model.curves) + 1, Len(gmsh.model.curves))

\* C7 as amended: the constructors check nothing themselves.  A Point with
\* non-positive mesh size is registered with that mesh size unchanged and
\* the construction succeeds.  A Rectangle with a zero or negative side
\* registers its 4 corner points, computed from the unclamped dx and dy,
\* before any line is requested; it fails only if the engine refuses a line
\* between coincident corners, and the corner points stay registered.  A
\* Circle with zero or negative diameter (n_points # 0) requests its arcs
\* with radius diameter/2 unclamped; it fails only if the engine refuses
\* the arc.
C7_NoValidationInConstructors ==
    /\ InvalidPoint =>
          /\ ~lastCall.raised /\ err = "none"
          /\ Len(NewPoints) = 1
          /\ NewPoints[1].ms = lastCall.args[3]
          /\ NewPoints[1].x = lastCall.args[1] /\ NewPoints[1].y = lastCall.args[2]
          /\ pyPoints[Len(pyPoints)].mesh_size = lastCall.args[3]
          /\ pyPoints[Len(pyPoints)].tag = Len(gmsh.model.points)
    /\ InvalidRectangle =>
          LET xc == lastCall.args[1]
              yc == lastCall.args[2]
              dx == lastCall.args[3]
              dy == lastCall.args[4]
          IN  /\ Len(NewPoints) = 4
              /\ NewPoints[1].x = xc - Half(dx) /\ NewPoints[1].y = yc - Half(dy)
              /\ NewPoints[2].x = xc + Half(dx) /\ NewPoints[2].y = yc - Half(dy)
              /\ NewPoints[3].x = xc + Half(dx) /\ NewPoints[3].y = yc + Half(dy)
              /\ NewPoints[4].x = xc - Half(dx) /\ NewPoints[4].y = yc + Half(dy)
              /\ lastCall.raised => (err = "EngineError" /\ (dx = 0 \/ dy = 0) /\ Len(NewCurves) < 4)
              /\ ~lastCall.raised =>
                    /\ err = "none"
                    /\ Len(NewCurves) = 4
                    /\ ext_domain.dx = dx /\ ext_domain.dy = dy
    /\ (InvalidCircle /\ lastCall.args[4] # 0) =>
          /\ lastCall.raised => (err = "EngineError" /\ gmsh.model = prev.model)
          /\ ~lastCall.raised =>
                /\ err = "none"
                /\ circles[Len(circles)].radius = Half(lastCall.args[3])
                /\ Len(NewCurves) = (IF Distribution(lastCall.args[4]) > 0
                                       THEN Distribution(lastCall.args[4]) ELSE 0)
                /\ \A k \in 1..Len(NewCurves) : NewCurves[k].r = Half(lastCall.args[3])

\* C7 witness: after a Point of non-positive mesh size was registered, a
\* Rectangle with a zero side has left its 4 corner points in the model
\* although the engine refused its line
C7_Witness ==
    /\ InvalidRectangle
    /\ lastCall.raised
    /\ Len(NewPoints) = 4
    /\ Len(pyPoints) = 1
    /\ NonPositive(pyPoints[1].mesh_size)
    /\ NonPositive(gmsh.model.points[pyPoints[1].tag].ms)

\* the requests the engine received during the last library call
NewRequests == SubSeq(gmsh.log, Len(prev.log) + 1, Len(gmsh.log))

\* the Rectangle object still shows the corner coordinates of its construction
StoredCornersAsConstructed ==
    LET r == ext_domain
    IN  /\ r.points[1].x = r.xc - Half(r.dx) /\ r.points[1].y = r.yc - Half(r.dy)
        /\ r.points[2].x = r.xc + Half(r.dx) /\ r.points[2].y = r.yc - Half(r.dy)
        /\ r.points[3].x = r.xc + Half(r.dx) /\ r.points[3].y = r.yc + Half(r.dy)
        /\ r.points[4].x = r.xc - Half(r.dx) /\ r.points[4].y = r.yc + Half(r.dy)

\* C10 as stated: Rectangle.translation(v) transforms each of the 4 Lines,
\* and each Line in turn transforms its start and end Points, so that all 4
\* Lines and all 4 corner Points are displaced by v: a request is issued for
\* every line and for every corner point, the line entities are displaced by
\* v, and every corner Point shows the coordinates it had before the call
\* plus v.
C10_TranslationMovesLinesAndPoints ==
    (lastCall.op = "Rectangle.translation") =>
        LET r == ext_domain
            v == lastCall.args
        IN  /\ \A k \in 1..4 :
                  \E j \in 1..Len(NewRequests) :
                      NewRequests[j] = Req("translate", 1, r.lines[k].tag, <<v[1], v[2], 0>>)
            /\ \A k \in 1..4 :
                  \E j \in 1..Len(NewRequests) :
                      NewRequests[j] = Req("translate", 0, r.points[k].tag, <<v[1], v[2], 0>>)
            /\ \A k \in 1..4 :
                  /\ r.points[k].x = prev.model.points[r.points[k].tag].x + v[1]
                  /\ r.points[k].y = prev.model.points[r.points[k].tag].y + v[2]

\* C10 as amended: Rectangle.translation(v) and Rectangle.rotation reapply
\* the transform to each of the 4 Lines, in order, and each Line issues
\* exactly one engine request, for its own curve (dimension 1, its tag) with
\* the same arguments; the curve is displaced accordingly.  A Line does not
\* transform its Points: no request is issued for a point, and the
\* coordinates stored in the Rectangle and its Points stay those of the
\* construction.
C10_TransformIsOneRequestPerLine ==
    (lastCall.op \in {"Rectangle.translation", "Rectangle.rotation"}) =>
        LET r == ext_domain
            a == lastCall.args
            tr == lastCall.op = "Rectangle.translation"
        IN  /\ Len(NewRequests) = 4
            /\ \A k \in 1..4 :
                  NewRequests[k] = Req(IF tr THEN "translate" ELSE "rotate", 1, r.lines[k].tag,
                                       IF tr THEN <<a[1], a[2], 0>> ELSE a)
            /\ \A k \in 1..4 :
                  LET old == prev.model.curves[r.lines[k].tag]
                      new == gmsh.model.curves[r.lines[k].tag]
                  IN  IF tr
                      THEN /\ new.x1 = old.x1 + a[1] /\ new.y1 = old.y1 + a[2]
                           /\ new.x2 = old.x2 + a[1] /\ new.y2 = old.y2 + a[2]
                      ELSE /\ <<new.x1, new.y1>> = Rot(old.x1, old.y1, a[1], a[2], a[3])
                           /\ <<new.x2, new.y2>> = Rot(old.x2, old.y2, a[1], a[2], a[3])
            /\ \A j \in 1..Len(NewRequests) : NewRequests[j].dim # 0
            /\ StoredCornersAsConstructed

\* C10 witness: a proper rectangle has been translated; the engine's bottom
\* line has left the place the Rectangle's stored corner still shows
C10_Witness ==
    /\ lastCall.op = "Rectangle.translation"
    /\ ext_domain.dx > 0 /\ ext_domain.dy > 0
    /\ Len(NewRequests) = 4
    /\ \/ gmsh.model.curves[ext_domain.lines[1].tag].x1 # ext_domain.points[1].x
       \/ gmsh.model.curves[ext_domain.lines[1].tag].y1 # ext_domain.points[1].y

---------------------------------------------------------------------------
(* C11: threshold *)

\* the fields registered by the last library call
NewFields == {f \in 1..Len(gmsh.model.fields) : f > Len(prev.model.fields)}

\* field f measures the distance to one point, placed at (xc, yc)
IsDistanceTo(f, xc, yc) ==
    /\ f \in 1..Len(gmsh.model.fields)
    /\ gmsh.model.fields[f].type = "Distance"
    /\ FieldHas(f, "PointsList")
    /\ Len(FieldOpt(f, "PointsList")) = 1
    /\ LET c == FieldOpt(f, "PointsList")[1]
       IN  /\ c \in 1..Len(gmsh.model.points)
           /\ gmsh.model.points[c].kind = "xy"
           /\ gmsh.model.points[c].x = xc
           /\ gmsh.model.points[c].y = yc

\* field f is the Threshold field the caller asked for
IsThreshold(f, xc, yc, dist_min, dist_max, mesh_size_in, mesh_size_out) ==
    /\ f \in 1..Len(gmsh.model.fields)
    /\ gmsh.model.fields[f].type = "Threshold"
    /\ \A key \in {"DistMin", "DistMax", "SizeMin", "SizeMax", "InField"} : FieldHas(f, key)
    /\ FieldOpt(f, "DistMin") = dist_min
    /\ FieldOpt(f, "DistMax") = dist_max
    /\ FieldOpt(f, "SizeMin") = mesh_size_in
    /\ FieldOpt(f, "SizeMax") = mesh_size_out
    /\ IsDistanceTo(FieldOpt(f, "InField"), xc, yc)

\* C11: after threshold(xc, yc, dist_min, dist_max, mesh_size_in,
\* mesh_size_out) the returned field is a Threshold field over the distance
\* to (xc, yc) with DistMin = dist_min, DistMax = dist_max, SizeMin =
\* mesh_size_in and SizeMax = mesh_size_out; a call with dist_min >= dist_max
\* raises and registers no field
C11_ThresholdBounds ==
    lastCall.op = "threshold" =>
        LET a == lastCall.args
        IN  IF a[3] >= a[4]
            THEN lastCall.raised /\ NewFields = {}
            ELSE /\ ~lastCall.raised
                 /\ fields # <<>>
                 /\ fields[Len(fields)] \in NewFields
                 /\ IsThreshold(fields[Len(fields)], a[1], a[2], a[3], a[4], a[5], a[6])

---------------------------------------------------------------------------
(* C12: corner order, line order and boundary names of a Rectangle *)

\* the physical groups registered by the last library call
NewGroups == {k \in 1..Len(gmsh.model.groups) : k > Len(prev.model.groups)}

\* the last call registered exactly one group called name, and it holds
\* exactly the one line
NamesOnlyLine(name, line) ==
    \E k \in NewGroups :
        /\ gmsh.model.groups[k].name = name
        /\ gmsh.model.groups[k].dim = 1
        /\ gmsh.model.groups[k].ents = <<line.tag>>
        /\ \A j \in NewGroups : gmsh.model.groups[j].name = name => j = k

\* the engine's point number t lies at (x, y), given doubled
AtTwice(t, x2, y2) ==
    /\ gmsh.model.points[t].kind = "xy"
    /\ 2 * gmsh.model.points[t].x = x2
    /\ 2 * gmsh.model.points[t].y = y2

\* the corners and lines as Rectangle(xc, yc, dx, dy, mesh_size) leaves them
CornersAndEdgesInOrder ==
    LET r == ext_domain
        a == lastCall.args
        left == 2 * a[1] - a[3]
        right == 2 * a[1] + a[3]
        bottom == 2 * a[2] - a[4]
        top == 2 * a[2] + a[4]
        c(i) == gmsh.model.curves[r.lines[i].tag]
    IN  /\ Len(NewPoints) = 4 /\ Len(NewCurves) = 4
        /\ left < right /\ bottom < top
        /\ \A i \in 1..4 : r.points[i].tag = Len(prev.model.points) + i
        /\ AtTwice(r.points[1].tag, left, bottom)
        /\ AtTwice(r.points[2].tag, right, bottom)
        /\ AtTwice(r.points[3].tag, right, top)
        /\ AtTwice(r.points[4].tag, left, top)
        /\ \A i \in 1..4 :
              /\ r.lines[i].tag = Len(prev.model.curves) + i
              /\ c(i).kind = "line"
              /\ c(i).s = r.points[i].tag
              /\ c(i).e = r.points[(i % 4) + 1].tag
        /\ 2 * c(1).y1 = bottom /\ 2 * c(1).y2 = bottom
        /\ 2 * c(2).x1 = right /\ 2 * c(2).x2 = right
        /\ 2 * c(3).y1 = top /\ 2 * c(3).y2 = top
        /\ 2 * c(4).x1 = left /\ 2 * c(4).x2 = left

\* C12: for dx, dy > 0 the constructor emits the corners in the order
\* bottom-left, bottom-right, top-right, top-left and line i joins corner i
\* to corner (i+1) mod 4, so lines[0..3] are the bottom, right, top and left
\* edges; define_bc registers 4 groups, "wall_bottom" for lines[0], "outlet"
\* for lines[1], "wall_top" for lines[2] and "inlet" for lines[3], each
\* holding exactly that one line
C12_RectangleEdgesAndGroups ==
    /\ (lastCall.op = "Rectangle" /\ ~lastCall.raised /\ lastCall.args[3] > 0 /\ lastCall.args[4] > 0)
          => CornersAndEdgesInOrder
    /\ (lastCall.op = "Rectangle.define_bc" /\ ext_domain.dx > 0 /\ ext_domain.dy > 0)
          => /\ Cardinality(NewGroups) = 4
             /\ NamesOnlyLine("wall_bottom", ext_domain.lines[1])
             /\ NamesOnlyLine("outlet", ext_domain.lines[2])
             /\ NamesOnlyLine("wall_top", ext_domain.lines[3])
             /\ NamesOnlyLine("inlet", ext_domain.lines[4])

\* C12 witness: define_bc has just named the edges of a proper rectangle
C12_Witness ==
    /\ lastCall.op = "Rectangle.define_bc"
    /\ ext_domain.dx > 0 /\ ext_domain.dy > 0
    /\ prev.model.groups = <<>>
    /\ GroupNames = <<"inlet", "outlet", "wall_top", "wall_bottom">>
    /\ gmsh.model.curves[ext_domain.lines[4].tag].x1 < gmsh.model.curves[ext_domain.lines[2].tag].x1

---------------------------------------------------------------------------
(* C13: the closed loops of the fluid surface, checked under Spec *)

\* C13: when a mesh() invocation for N positions has stopped, the engine
\* holds one plane surface, defined by exactly N + 1 closed loops: the first
\* is the loop of the 4 lines of the bounding rectangle, loops 2..N+1 are the
\* loops of the arcs of circles 0..N-1 in position order; the invocation has
\* requested exactly N + 1 loops, each once, and every circle's merge of
\* duplicate points has run before any loop was formed
C13_SurfaceLoops ==
    MeshStopped =>
        LET n == Len(CylindersPos)
        IN  /\ Len(gmsh.model.surfaces) = 1
            /\ surface_domain.kind = "PlaneSurface"
            /\ surface_domain.tag_list = gmsh.model.surfaces[1]
            /\ Len(gmsh.model.surfaces[1]) = n + 1
            /\ Len(circles) = n
            /\ \A i \in 1..(n + 1) : gmsh.model.surfaces[1][i] \in 1..Len(gmsh.model.loops)
            /\ \A i, j \in 1..(n + 1) :
                  i # j => gmsh.model.surfaces[1][i] # gmsh.model.surfaces[1][j]
            /\ Len(ext_domain.lines) = 4
            /\ gmsh.model.loops[gmsh.model.surfaces[1][1]] = TagsOf(ext_domain.lines)
            /\ \A i \in 1..n :
                  gmsh.model.loops[gmsh.model.surfaces[1][i + 1]] = circles[i].arcCircle_list
            /\ Len(gmsh.model.loops) = n + 1
            /\ Cardinality(OpsAt({"addCurveLoop"})) = n + 1
            /\ Cardinality(OpsAt({"removeAllDuplicates"})) = n
            /\ Before({"removeAllDuplicates"}, {"addCurveLoop"})

====
